---- MODULE Spec2Model ----
(***************************************************************************)
(* Model of src/loss.py: GradientLoss, SigLoss, Cosine_MSE and the Loss    *)
(* dispatcher.                                                             *)
(*                                                                         *)
(* Tensors are records [shape, at]: shape is <<B, C, H, W>> and at maps a  *)
(* 0-based index tuple to an element.  Floating-point numbers are exact    *)
(* rationals extended with nan and +/-inf, with IEEE propagation rules.    *)
(* torch.log is a table of ln(x) in tenths at the sample points the model  *)
(* uses; every other operation is computed exactly.                        *)
(***************************************************************************)
EXTENDS Integers, Sequences, FiniteSets, TLC

VARIABLES self, pred, target, loss_type, ret, calls, warm_rets, pc, tmp, overlapped

vars == <<self, pred, target, loss_type, ret, calls, warm_rets, pc, tmp, overlapped>>

(***************************************************************************)
(* Bounds of the model.                                                    *)
(***************************************************************************)
MaxB == 3
MaxH == 5
MaxW == 2
MaxNumel == 4
MaxWarmIter == 2
MaxCalls == 4
NumThreads == 3
MaxThreadCalls == 3
MaxC == 3
MaxFeatNumel == 4

(***************************************************************************)
(* Floating-point values: [k, n, d] with k in {"fin", "nan", "inf"}.  A    *)
(* finite value is the reduced fraction n/d with d > 0; an infinity keeps  *)
(* its sign in n.                                                          *)
(***************************************************************************)
RECURSIVE GCD(_, _)
GCD(a, b) == IF b = 0 THEN a ELSE GCD(b, a % b)

IAbs(x) == IF x < 0 THEN -x ELSE x

ISign(x) == IF x < 0 THEN -1 ELSE IF x > 0 THEN 1 ELSE 0

NaN == [k |-> "nan", n |-> 0, d |-> 1]

Inf(s) == [k |-> "inf", n |-> s, d |-> 1]

Fin(n, d) ==
    LET g == GCD(IAbs(n), IAbs(d))
        s == IF d < 0 THEN -1 ELSE 1
    IN  [k |-> "fin", n |-> s * (n \div g), d |-> s * (d \div g)]

FInt(i) == [k |-> "fin", n |-> i, d |-> 1]

IsNaN(a) == a.k = "nan"

IsFin(a) == a.k = "fin"

IsZero(a) == a.k = "fin" /\ a.n = 0

FNeg(a) == IF a.k = "nan" THEN NaN ELSE [a EXCEPT !.n = -a.n]

FAdd(a, b) ==
    IF a.k = "nan" \/ b.k = "nan" THEN NaN
    ELSE IF a.k = "inf" /\ b.k = "inf" THEN (IF a.n = b.n THEN a ELSE NaN)
    ELSE IF a.k = "inf" THEN a
    ELSE IF b.k = "inf" THEN b
    ELSE LET g == GCD(a.d, b.d)
             l == (a.d \div g) * b.d
         IN  Fin(a.n * (l \div a.d) + b.n * (l \div b.d), l)

FSub(a, b) == FAdd(a, FNeg(b))

FMul(a, b) ==
    IF a.k = "nan" \/ b.k = "nan" THEN NaN
    ELSE IF a.k = "inf" \/ b.k = "inf"
         THEN (IF a.n = 0 \/ b.n = 0 THEN NaN ELSE Inf(ISign(a.n) * ISign(b.n)))
    ELSE LET g1 == GCD(IAbs(a.n), b.d)
             g2 == GCD(IAbs(b.n), a.d)
         IN  Fin((a.n \div g1) * (b.n \div g2), (a.d \div g2) * (b.d \div g1))

FDiv(a, b) ==
    IF a.k = "nan" \/ b.k = "nan" THEN NaN
    ELSE IF b.k = "inf" THEN (IF a.k = "inf" THEN NaN ELSE FInt(0))
    ELSE IF b.n = 0
         THEN (IF a.n = 0 THEN NaN ELSE Inf(ISign(a.n)))
    ELSE IF a.k = "inf" THEN Inf(ISign(a.n) * ISign(b.n))
    ELSE FMul(a, Fin(b.d * ISign(b.n), IAbs(b.n)))

FAbs(a) == IF a.k = "nan" THEN NaN ELSE [a EXCEPT !.n = IAbs(a.n)]

RECURSIVE FSum(_)
FSum(s) == IF s = <<>> THEN FInt(0) ELSE FAdd(Head(s), FSum(Tail(s)))

(***************************************************************************)
(* torch.log at the sample points: ln(x) in tenths, x given in             *)
(* thousandths.  ln(0.001) = -6.9, ln(2.001) = 0.7, ln(3.001) = 1.1; the   *)
(* logarithm of a negative number is nan and of zero is -inf.              *)
(***************************************************************************)
LnTenths(m) ==
    CASE m = 1 -> -69
      [] m = 2001 -> 7
      [] m = 3001 -> 11

EpsMilli == 1

FLog(a) ==
    IF a.k = "nan" THEN NaN
    ELSE IF a.k = "inf" THEN (IF a.n > 0 THEN a ELSE NaN)
    ELSE IF a.n < 0 THEN NaN
    ELSE IF a.n = 0 THEN Inf(-1)
    ELSE Fin(LnTenths((a.n * 1000) \div a.d), 10)

AddEps(a) == FAdd(a, Fin(EpsMilli, 1000))

FGt0(a) == (a.k = "fin" /\ a.n > 0) \/ (a.k = "inf" /\ a.n > 0)

FLeInt(a, m) == (a.k = "fin" /\ a.n <= m * a.d) \/ (a.k = "inf" /\ a.n < 0)

FBool(b) == IF b THEN FInt(1) ELSE FInt(0)

(***************************************************************************)
(* Tensors.                                                                *)
(***************************************************************************)
Indices(shape) ==
    {<<b, c, h, w>> : b \in 0 .. shape[1] - 1, c \in 0 .. shape[2] - 1,
                      h \in 0 .. shape[3] - 1, w \in 0 .. shape[4] - 1}

\* The tensor of one shape holding v everywhere (torch.ones_like for v = 1).
Full(shape, v) == [shape |-> shape, at |-> [i \in Indices(shape) |-> v]]

Numel(T) == T.shape[1] * T.shape[2] * T.shape[3] * T.shape[4]

\* The index tuple of the k-th element (k from 1) in row-major order.
Unravel(shape, k) ==
    LET j == k - 1
    IN  <<j \div (shape[2] * shape[3] * shape[4]),
          (j \div (shape[3] * shape[4])) % shape[2],
          (j \div shape[4]) % shape[3],
          j % shape[4]>>

Flatten(T) == [k \in 1 .. Numel(T) |-> T.at[Unravel(T.shape, k)]]

TSum(T) == FSum(Flatten(T))

ToFloat(T) == [T EXCEPT !.at = [i \in Indices(T.shape) |-> FInt(T.at[i])]]

\* torch.log(T + eps)
TLogEps(T) == [T EXCEPT !.at = [i \in Indices(T.shape) |-> FLog(AddEps(T.at[i]))]]

\* S - T
TSub(S, T) == [S EXCEPT !.at = [i \in Indices(S.shape) |-> FSub(S.at[i], T.at[i])]]

\* torch.mul(S, T)
TMul(S, T) == [S EXCEPT !.at = [i \in Indices(S.shape) |-> FMul(S.at[i], T.at[i])]]

\* torch.abs(T)
TAbs(T) == [T EXCEPT !.at = [i \in Indices(T.shape) |-> FAbs(T.at[i])]]

CeilDiv(a, b) == (a + b - 1) \div b

\* T[:, :, ::k, ::k]
Downscale(T, k) ==
    LET shape == <<T.shape[1], T.shape[2], CeilDiv(T.shape[3], k), CeilDiv(T.shape[4], k)>>
    IN  [shape |-> shape,
         at |-> [i \in Indices(shape) |-> T.at[<<i[1], i[2], i[3] * k, i[4] * k>>]]]

Max0(x) == IF x < 0 THEN 0 ELSE x

\* The slice 0:-2 of T along one axis (axes are numbered from 1).
SliceHead(T, axis) ==
    LET shape == [T.shape EXCEPT ![axis] = Max0(@ - 2)]
    IN  [shape |-> shape, at |-> [i \in Indices(shape) |-> T.at[i]]]

\* The slice 2: of T along one axis.
SliceTail(T, axis) ==
    LET shape == [T.shape EXCEPT ![axis] = Max0(@ - 2)]
    IN  [shape |-> shape,
         at |-> [i \in Indices(shape) |-> T.at[[i EXCEPT ![axis] = @ + 2]]]]

\* T[mask]: the elements of T where mask holds, in row-major order.
RECURSIVE Select(_, _)
Select(vals, keep) ==
    IF vals = <<>> THEN <<>>
    ELSE IF Head(keep) THEN <<Head(vals)>> \o Select(Tail(vals), Tail(keep))
    ELSE Select(Tail(vals), Tail(keep))

(***************************************************************************)
(* GradientLoss                                                            *)
(***************************************************************************)
IsValid(obj, t) ==
    IF obj.max_depth # {}
    THEN FGt0(t) /\ (\A m \in obj.max_depth : FLeInt(t, m))
    ELSE FGt0(t)

\* target > 0, or logical_and(target > 0, target <= max_depth), as 0 and 1.
MaskOf(obj, T) == [T EXCEPT !.at = [i \in Indices(T.shape) |-> FBool(IsValid(obj, T.at[i]))]]

\* The axis the first subscript of log_d_diff[0:-2, :] slices, and the axis
\* the second subscript of log_d_diff[:, 0:-2] slices.
VAxis == 1

HAxis == 2

\* The stride of the i-th subsample, input[:, :, ::2*i, ::2*i].
Stride(i) == 2 * i

Strides == <<1, Stride(1), Stride(2), Stride(3)>>

\* One pass of the loop body over one (input, target) scale, with the
\* gradients taken along axes va and ha.
ScaleLossAlong(obj, input, tgt, va, ha) ==
    LET mask == IF obj.valid_mask THEN MaskOf(obj, tgt) ELSE Full(tgt.shape, FInt(1))
        N == IF obj.valid_mask THEN TSum(mask) ELSE FInt(Numel(input))
        input_log == TLogEps(input)
        target_log == TLogEps(tgt)
        log_d_diff == TMul(TSub(input_log, target_log), mask)
        v_gradient == TAbs(TSub(SliceHead(log_d_diff, va), SliceTail(log_d_diff, va)))
        v_mask == TMul(SliceHead(mask, va), SliceTail(mask, va))
        v_masked == TMul(v_gradient, v_mask)
        h_gradient == TAbs(TSub(SliceHead(log_d_diff, ha), SliceTail(log_d_diff, ha)))
        h_mask == TMul(SliceHead(mask, ha), SliceTail(mask, ha))
        h_masked == TMul(h_gradient, h_mask)
    IN  FDiv(FAdd(TSum(h_masked), TSum(v_masked)), N)

\* ScaleLoss with a guard that skips a scale without valid elements.
ScaleLossGuarded(obj, input, tgt) ==
    IF obj.valid_mask /\ \A i \in Indices(tgt.shape) : ~IsValid(obj, tgt.at[i])
    THEN FInt(0)
    ELSE ScaleLossAlong(obj, input, tgt, VAxis, HAxis)

ScaleLoss(obj, input, tgt) == ScaleLossAlong(obj, input, tgt, VAxis, HAxis)

gradientloss(obj, input, tgt) ==
    FSum([s \in 1 .. Len(Strides) |->
            ScaleLoss(obj, Downscale(input, Strides[s]), Downscale(tgt, Strides[s]))])

GradientLoss_forward(obj, depth_pred, depth_gt) ==
    FMul(FInt(obj.loss_weight), gradientloss(obj, ToFloat(depth_pred), ToFloat(depth_gt)))

(***************************************************************************)
(* SigLoss                                                                 *)
(***************************************************************************)
\* input[valid_mask] and target[valid_mask] when masking is on; every
\* element otherwise.  The result is the pair of element sequences.
SigFilter(obj, input, tgt) ==
    IF obj.valid_mask
    THEN LET valid_mask == [k \in 1 .. Numel(tgt) |-> IsValid(obj, Flatten(tgt)[k])]
         IN  <<Select(Flatten(input), valid_mask), Select(Flatten(tgt), valid_mask)>>
    ELSE <<Flatten(input), Flatten(tgt)>>

\* LogRatio with the two logarithms added instead of subtracted.
LogRatioAdded(xs, ts) ==
    [k \in 1 .. Len(xs) |-> FAdd(FLog(AddEps(xs[k])), FLog(AddEps(ts[k])))]

\* g = torch.log(input + eps) - torch.log(target + eps)
LogRatio(xs, ts) ==
    [k \in 1 .. Len(xs) |-> FSub(FLog(AddEps(xs[k])), FLog(AddEps(ts[k])))]

Mean(g) == FDiv(FSum(g), FInt(Len(g)))

\* torch.var: the unbiased estimator, dividing by max(0, n - 1).
Var(g) ==
    LET m == Mean(g)
    IN  FDiv(FSum([k \in 1 .. Len(g) |-> FMul(FSub(g[k], m), FSub(g[k], m))]),
             FInt(Max0(Len(g) - 1)))

\* 0.15 * torch.pow(torch.mean(g), 2)
WarmG(g) == FMul(Fin(3, 20), FMul(Mean(g), Mean(g)))

\* torch.var(g) + 0.15 * torch.pow(torch.mean(g), 2)
FullDg(g) == FAdd(Var(g), WarmG(g))

\* InWarmUp with <= for <.
InWarmUpInclusive(obj) == obj.warm_up_counter <= obj.warm_iter

\* The test self.warm_up_counter < self.warm_iter.
InWarmUp(obj) == obj.warm_up_counter < obj.warm_iter

\* Bump that leaves the counter as it is.
BumpNothing(c) == c

\* Bump that adds two.
BumpTwice(c) == c + 2

\* The counter after self.warm_up_counter += 1.
Bump(c) == c + 1

\* sigloss: the radicand of the returned square root, the counter it leaves
\* behind and whether it returned from the warm-up branch.
sigloss(obj, input, tgt) ==
    LET f == SigFilter(obj, input, tgt)
        g == LogRatio(f[1], f[2])
    IN  IF obj.warm_up /\ InWarmUp(obj)
        THEN [sqrt_of |-> WarmG(g), warm_up_counter |-> Bump(obj.warm_up_counter),
              warm |-> TRUE]
        ELSE [sqrt_of |-> FullDg(g), warm_up_counter |-> obj.warm_up_counter,
              warm |-> FALSE]

\* A value coef * sqrt(sqrt_of), kept symbolic.
Surd(coef, x) == [kind |-> "surd", coef |-> coef, sqrt_of |-> x]

SigLoss_forward(obj, depth_pred, depth_gt) ==
    LET r == sigloss(obj, ToFloat(depth_pred), ToFloat(depth_gt))
    IN  [r EXCEPT !.sqrt_of = Surd(FInt(obj.loss_weight), r.sqrt_of)]

(***************************************************************************)
(* Objects and inputs.                                                     *)
(***************************************************************************)
NoRet == [kind |-> "none"]

GradientLoss_init(valid_mask, loss_weight, max_depth) ==
    [class |-> "GradientLoss", valid_mask |-> valid_mask, loss_weight |-> loss_weight,
     max_depth |-> max_depth]

SigLoss_init(valid_mask, loss_weight, max_depth, warm_up, warm_iter) ==
    [class |-> "SigLoss", valid_mask |-> valid_mask, loss_weight |-> loss_weight,
     max_depth |-> max_depth, warm_up |-> warm_up, warm_iter |-> warm_iter,
     warm_up_counter |-> 0]

\* max_depth is None ({}) or a threshold.
MaxDepths == {{}, {2}}

Weights == {1, 2}

\* Shapes (B, 1, H, W): every shape of at most MaxNumel elements, and the
\* single columns of up to MaxH rows.
DepthShapes ==
    {s \in (1 .. MaxB) \X {1} \X (1 .. MaxH) \X (1 .. MaxW) :
        s[1] * s[3] * s[4] <= MaxNumel \/ (s[1] = 1 /\ s[4] = 1)}

\* The tensors of one shape that hold one value everywhere except at most
\* at one position.
Family(shape, Base, Vals) ==
    {Full(shape, v) : v \in Base} \cup
    {[Full(shape, v) EXCEPT !.at[i] = u] : v \in Base, u \in Vals, i \in Indices(shape)}

\* Depth values: -1 and 0 are invalid ground truth, 3 exceeds max_depth = 2.
TargetVals == {-1, 0, 2, 3}

PredVals == {-1, 2, 3}

Idle == [t \in {} |-> "idle"]

(***************************************************************************)
(* The depth losses applied to one batch.                                  *)
(***************************************************************************)
InitDepth ==
    /\ self \in {GradientLoss_init(v, w, m) : v \in BOOLEAN, w \in Weights, m \in MaxDepths}
         \cup {SigLoss_init(v, w, m, u, 1) :
                 v \in BOOLEAN, w \in Weights, m \in MaxDepths, u \in BOOLEAN}
    /\ \E s \in DepthShapes : 
          /\ pred \in Family(s, {2, 3}, PredVals)
          /\ target \in Family(s, {0, 2}, TargetVals)
    /\ ret = NoRet
    /\ calls = 0
    /\ warm_rets = 0
    /\ loss_type = ""
    /\ pc = Idle
    /\ tmp = Idle
    /\ overlapped = FALSE

GradientForward ==
    /\ self.class = "GradientLoss"
    /\ ret' = [kind |-> "float", v |-> GradientLoss_forward(self, pred, target)]
    /\ calls' = 1
    /\ UNCHANGED <<self, pred, target, loss_type, warm_rets, pc, tmp, overlapped>>

\* One forward call of the SigLoss instance on the tensors p and t.
SigCall(p, t) ==
    LET r == SigLoss_forward(self, p, t)
    IN  /\ self.class = "SigLoss"
        /\ self' = [self EXCEPT !.warm_up_counter = r.warm_up_counter]
        /\ ret' = [r.sqrt_of EXCEPT !.kind = IF r.warm THEN "warm" ELSE "full"]
        /\ calls' = calls + 1
        /\ warm_rets' = IF r.warm THEN warm_rets + 1 ELSE warm_rets
        /\ UNCHANGED <<loss_type, pc, tmp, overlapped>>

SigForwardOnce ==
    /\ calls = 0
    /\ SigCall(pred, target)
    /\ UNCHANGED <<pred, target>>

NextDepth == GradientForward \/ SigForwardOnce

SpecDepth == InitDepth /\ [][NextDepth]_vars

(***************************************************************************)
(* Properties of the depth losses on one batch.                            *)
(***************************************************************************)
Called == ret.kind # "none"

\* The instance as it was before the one call made on it.
PreCall == IF self.class = "SigLoss" THEN [self EXCEPT !.warm_up_counter = 0] ELSE self

\* What a forward call of the instance obj returns on (p, t), as ret holds it.
ForwardRet(obj, p, t) ==
    IF obj.class = "GradientLoss"
    THEN [kind |-> "float", v |-> GradientLoss_forward(obj, p, t)]
    ELSE LET r == SigLoss_forward(obj, p, t)
         IN  [r.sqrt_of EXCEPT !.kind = IF r.warm THEN "warm" ELSE "full"]

ValidAt(obj, t, i) == IsValid(obj, FInt(t.at[i]))

InvalidVals(obj) == {u \in TargetVals : ~IsValid(obj, FInt(u))}

RetIsZero ==
    IF ret.kind = "float" THEN IsZero(ret.v)
    ELSE IsFin(ret.coef) /\ IsZero(ret.sqrt_of)

AllValidEqual ==
    /\ pred = target
    /\ \A i \in Indices(target.shape) : ValidAt(self, target, i)

\* The number of valid elements of the target subsampled at one stride.
ValidCount(stride) ==
    LET t == Downscale(target, stride)
    IN  Cardinality({i \in Indices(t.shape) : ValidAt(self, t, i)})

\* C5 (as claimed): with valid_mask on, the result of GradientLoss and of
\* SigLoss does not depend on the prediction or target values at invalid
\* positions, as long as those positions stay invalid; with valid_mask off
\* SigLoss keeps every element.
C5_InvalidPositionsExcluded ==
    Called =>
        /\ self.valid_mask =>
             \A i \in {j \in Indices(target.shape) : ~ValidAt(self, target, j)} :
                /\ \A v \in PredVals :
                     ForwardRet(PreCall, [pred EXCEPT !.at[i] = v], target) = ret
                /\ \A u \in InvalidVals(self) :
                     ForwardRet(PreCall, pred, [target EXCEPT !.at[i] = u]) = ret
        /\ (self.class = "SigLoss" /\ ~self.valid_mask) =>
             Len(SigFilter(self, ToFloat(pred), ToFloat(target))[1]) = Numel(target)

\* C6 (as claimed): for all-valid arrays with prediction equal to target,
\* of any shape and under any configuration, both losses are exactly 0.
C6_EqualInputsGiveZero ==
    (Called /\ AllValidEqual) => RetIsZero

\* C6 (amended): for all-valid arrays with prediction equal to target,
\* GradientLoss is exactly 0, and SigLoss is exactly 0 on the warm-up branch
\* and on the full branch over at least two elements; the full branch over
\* a single element is NaN (the variance of one sample is undefined).
C6_EqualInputsGiveZeroExceptSingleton ==
    (Called /\ AllValidEqual) =>
        IF ret.kind = "full" /\ Numel(target) = 1
        THEN IsNaN(ret.sqrt_of)
        ELSE RetIsZero

C6_Witness ==
    /\ Called /\ AllValidEqual
    /\ ret.kind = "full"
    /\ Numel(target) >= 2
    /\ \E i, j \in Indices(target.shape) : target.at[i] # target.at[j]
    /\ RetIsZero

\* C8 (as claimed): at every scale the vertical gradient is taken along the
\* height axis and the horizontal gradient along the width axis of the
\* (batch, channels, height, width) array.
C8_GradientsAlongHeightAndWidth ==
    (Called /\ self.class = "GradientLoss") =>
        ret.v = FMul(FInt(self.loss_weight),
                     FSum([s \in 1 .. Len(Strides) |->
                             ScaleLossAlong(self, Downscale(ToFloat(pred), Strides[s]),
                                            Downscale(ToFloat(target), Strides[s]), 3, 4)]))

\* C10: with masking on, a scale without any valid element makes the call
\* return a non-finite total, without raising, whatever the other scales hold.
C10_EmptyScaleGivesNonFinite ==
    (Called /\ self.class = "GradientLoss" /\ self.valid_mask
       /\ \E s \in 1 .. Len(Strides) : ValidCount(Strides[s]) = 0)
    => (ret.kind = "float" /\ ~IsFin(ret.v))

C10_Witness ==
    /\ Called /\ self.class = "GradientLoss" /\ self.valid_mask
    /\ ValidCount(Strides[4]) = 0
    /\ \A s \in 1 .. 3 : ValidCount(Strides[s]) > 0
    /\ IsNaN(ret.v)

(***************************************************************************)
(* One SigLoss instance called once per training step, each step on a new  *)
(* batch.                                                                  *)
(***************************************************************************)
SigBatches ==
    {<<p, t>> : p \in Family(<<1, 1, 1, 1>>, {3}, {2}) \cup Family(<<1, 1, 2, 1>>, {3}, {2}),
                t \in Family(<<1, 1, 1, 1>>, {2}, {0}) \cup Family(<<1, 1, 2, 1>>, {2}, {0})}

SameShape == {b \in SigBatches : b[1].shape = b[2].shape}

Init ==
    /\ self \in {SigLoss_init(v, w, m, u, n) :
                   v \in BOOLEAN, w \in Weights, m \in MaxDepths, u \in BOOLEAN,
                   n \in 0 .. MaxWarmIter}
    /\ \E b \in SameShape : pred = b[1] /\ target = b[2]
    /\ loss_type = ""
    /\ ret = NoRet
    /\ calls = 0
    /\ warm_rets = 0
    /\ pc = Idle
    /\ tmp = Idle
    /\ overlapped = FALSE

SigForward ==
    /\ calls < MaxCalls
    /\ \E b \in SameShape :
          /\ pred' = b[1]
          /\ target' = b[2]
          /\ SigCall(b[1], b[2])

Next == SigForward

Spec == Init /\ [][Next]_vars

\* The value a call returns from the warm-up branch and from the full
\* branch on the batch the state holds.
LastG ==
    LET f == SigFilter(self, ToFloat(pred), ToFloat(target))
    IN  LogRatio(f[1], f[2])

WarmRet == [kind |-> "warm", coef |-> FInt(self.loss_weight), sqrt_of |-> WarmG(LastG)]

FullRet == [kind |-> "full", coef |-> FInt(self.loss_weight), sqrt_of |-> FullDg(LastG)]

\* C1: with warm_up on and warm_iter = N, calls 1..N return
\* loss_weight * sqrt(0.15 * mean(g)^2), every later call returns
\* loss_weight * sqrt(var(g) + 0.15 * mean(g)^2), and after a call that
\* returned the full formula no call returns the warm-up formula.
C1_WarmUpGate ==
    /\ [](  (self.warm_up /\ calls >= 1) =>
              IF calls <= self.warm_iter THEN ret = WarmRet ELSE ret = FullRet)
    /\ [][ (self.warm_up /\ ret.kind = "full") => ret'.kind = "full" ]_vars

C1_Witness ==
    /\ self.warm_up /\ self.warm_iter >= 2
    /\ calls = self.warm_iter + 1
    /\ ret = FullRet
    /\ IsFin(ret.sqrt_of)
    /\ ret.sqrt_of # WarmRet.sqrt_of

\* C2: warm_up_counter starts at 0, grows by exactly 1 on each call that
\* takes the warm-up branch, is left alone by every other call, never
\* decreases and never exceeds warm_iter.
C2_CounterDiscipline ==
    /\ [](  /\ calls = 0 => self.warm_up_counter = 0
            /\ self.warm_up_counter = warm_rets
            /\ self.warm_up_counter <= self.warm_iter
            /\ ~self.warm_up => self.warm_up_counter = 0)
    /\ [][ /\ self'.warm_up_counter >= self.warm_up_counter
           /\ self'.warm_up_counter =
                IF ret'.kind = "warm" /\ calls' = calls + 1
                THEN self.warm_up_counter + 1 ELSE self.warm_up_counter ]_vars

C2_Witness ==
    /\ self.warm_up /\ self.warm_iter >= 2
    /\ self.warm_up_counter = self.warm_iter
    /\ calls > self.warm_iter
    /\ ret.kind = "full"

(***************************************************************************)
(* Threads calling forward on one SigLoss instance.  A call is a sequence  *)
(* of steps: the test of the counter, the read and the write of            *)
(* self.warm_up_counter += 1, and the return.  Nothing in the code orders  *)
(* the steps of different threads.                                         *)
(***************************************************************************)
Threads == 1 .. NumThreads

AllIdle == \A t \in Threads : pc[t] = "idle"

InitThreads ==
    /\ self \in {SigLoss_init(TRUE, 1, {}, u, n) : u \in BOOLEAN, n \in 0 .. MaxWarmIter}
    /\ pred = [Full(<<1, 1, 2, 1>>, 3) EXCEPT !.at[<<0, 0, 1, 0>>] = 2]
    /\ target = Full(<<1, 1, 2, 1>>, 2)
    /\ loss_type = ""
    /\ ret = NoRet
    /\ calls = 0
    /\ warm_rets = 0
    /\ pc = [t \in Threads |-> "idle"]
    /\ tmp = [t \in Threads |-> 0]
    /\ overlapped = FALSE

\* A thread enters forward.
Enter(t) ==
    /\ pc[t] = "idle"
    /\ calls < MaxThreadCalls
    /\ calls' = calls + 1
    /\ pc' = [pc EXCEPT ![t] = "test"]
    /\ overlapped' = (overlapped \/ \E u \in Threads : pc[u] # "idle")
    /\ UNCHANGED <<self, pred, target, loss_type, ret, warm_rets, tmp>>

\* if self.warm_up: if self.warm_up_counter < self.warm_iter:
TestCounter(t) ==
    /\ pc[t] = "test"
    /\ pc' = [pc EXCEPT ![t] = IF self.warm_up /\ InWarmUp(self) THEN "load" ELSE "full"]
    /\ UNCHANGED <<self, pred, target, loss_type, ret, calls, warm_rets, tmp, overlapped>>

\* The read of self.warm_up_counter += 1.
LoadCounter(t) ==
    /\ pc[t] = "load"
    /\ tmp' = [tmp EXCEPT ![t] = self.warm_up_counter]
    /\ pc' = [pc EXCEPT ![t] = "store"]
    /\ UNCHANGED <<self, pred, target, loss_type, ret, calls, warm_rets, overlapped>>

\* The write of self.warm_up_counter += 1.
StoreCounter(t) ==
    /\ pc[t] = "store"
    /\ self' = [self EXCEPT !.warm_up_counter = Bump(tmp[t])]
    /\ pc' = [pc EXCEPT ![t] = "warm"]
    /\ UNCHANGED <<pred, target, loss_type, ret, calls, warm_rets, tmp, overlapped>>

\* return torch.sqrt(g), scaled by forward.
ReturnWarm(t) ==
    /\ pc[t] = "warm"
    /\ ret' = WarmRet
    /\ warm_rets' = warm_rets + 1
    /\ pc' = [pc EXCEPT ![t] = "idle"]
    /\ UNCHANGED <<self, pred, target, loss_type, calls, tmp, overlapped>>

\* return torch.sqrt(Dg), scaled by forward.
ReturnFull(t) ==
    /\ pc[t] = "full"
    /\ ret' = FullRet
    /\ pc' = [pc EXCEPT ![t] = "idle"]
    /\ UNCHANGED <<self, pred, target, loss_type, calls, warm_rets, tmp, overlapped>>

NextThreads ==
    \E t \in Threads :
        \/ Enter(t)
        \/ TestCounter(t)
        \/ LoadCounter(t)
        \/ StoreCounter(t)
        \/ ReturnWarm(t)
        \/ ReturnFull(t)

SpecThreads == InitThreads /\ [][NextThreads]_vars

\* C9: as long as no two calls overlap, at most warm_iter calls return the
\* warm-up formula, the counter stays within warm_iter and every increment
\* is kept; overlapping calls can break all three (C9_Witness).
C9_SequentialCallsKeepTheGate ==
    ~overlapped =>
        /\ warm_rets <= self.warm_iter
        /\ self.warm_up_counter <= self.warm_iter
        /\ AllIdle => self.warm_up_counter = warm_rets

\* Overlapping calls: more than warm_iter warm-up returns, the counter
\* above warm_iter, and an increment lost.
C9_Witness ==
    /\ overlapped /\ AllIdle
    /\ warm_rets > self.warm_iter
    /\ self.warm_up_counter > self.warm_iter
    /\ self.warm_up_counter < warm_rets

(***************************************************************************)
(* Cosine_MSE                                                              *)
(***************************************************************************)
\* rearrange(x, "b c h w -> (b h w) c"): row (b*H + h)*W + w, column c, both
\* from 1, as a sequence of rows.
Rearrange(T) ==
    LET H == T.shape[3]
        W == T.shape[4]
    IN  [r \in 1 .. T.shape[1] * H * W |->
           [c \in 1 .. T.shape[2] |->
              T.at[<<(r - 1) \div (H * W), c - 1, ((r - 1) \div W) % H, (r - 1) % W>>]]]

RECURSIVE SeqMin(_)
SeqMin(row) ==
    IF Len(row) = 1 THEN row[1]
    ELSE LET m == SeqMin(Tail(row)) IN IF row[1] < m THEN row[1] ELSE m

RECURSIVE SeqMax(_)
SeqMax(row) ==
    IF Len(row) = 1 THEN row[1]
    ELSE LET m == SeqMax(Tail(row)) IN IF row[1] > m THEN row[1] ELSE m

\* max_val - min_val + 1e-6 for one row of the target.
Range(trow) == FAdd(FInt(SeqMax(trow) - SeqMin(trow)), Fin(1, 1000000))

\* MinMaxFromZero: the normalisation without the subtraction of min_val.
MinMaxFromZero(row, trow) ==
    [c \in 1 .. Len(row) |-> FDiv(FInt(row[c]), Range(trow))]

\* (x - min_val) / (max_val - min_val + 1e-6) for one row x, with min_val and
\* max_val taken from the target's row.
MinMax(row, trow) ==
    [c \in 1 .. Len(row) |-> FDiv(FInt(row[c] - SeqMin(trow)), Range(trow))]

pred_normalized(p, t) ==
    [r \in 1 .. Len(Rearrange(t)) |-> MinMax(Rearrange(p)[r], Rearrange(t)[r])]

\* target_normalized with the minimum left in.
target_normalized_unshifted(t) ==
    [r \in 1 .. Len(Rearrange(t)) |-> MinMaxFromZero(Rearrange(t)[r], Rearrange(t)[r])]

target_normalized(t) ==
    [r \in 1 .. Len(Rearrange(t)) |-> MinMax(Rearrange(t)[r], Rearrange(t)[r])]

RECURSIVE Dot(_, _)
Dot(x, y) == IF x = <<>> THEN 0 ELSE x[1] * y[1] + Dot(Tail(x), Tail(y))

\* torch.nn.CosineEmbeddingLoss with label +1: the mean over rows of
\* 1 - cos(x1, x2).  A row's term is kept as the dot product and the two
\* squared norms; it is 0 exactly when the rows point the same way.
cosine_loss(x1, x2, gt) ==
    [mean_of |-> [r \in 1 .. Len(gt) |->
                    [y |-> gt[r], dot |-> Dot(x1[r], x2[r]),
                     sq1 |-> Dot(x1[r], x1[r]), sq2 |-> Dot(x2[r], x2[r])]]]

\* torch.nn.MSELoss: the mean of the squared elementwise differences, kept
\* as the differences.
mse_loss(a, b) ==
    [mean_sq_of |-> [r \in 1 .. Len(a) |-> [c \in 1 .. Len(a[r]) |-> FSub(a[r][c], b[r][c])]]]

Cosine_MSE_forward(p, t) ==
    LET gt == [r \in 1 .. Len(Rearrange(t)) |-> 1]
    IN  [cosine |-> cosine_loss(Rearrange(p), Rearrange(t), gt),
         mse |-> mse_loss(pred_normalized(p, t), target_normalized(t))]

CosineTermIsZero(c) ==
    \A r \in 1 .. Len(c.mean_of) :
        LET e == c.mean_of[r]
        IN  e.y = 1 /\ e.dot > 0 /\ e.dot * e.dot = e.sq1 * e.sq2

MseTermIsZero(m) ==
    \A r \in 1 .. Len(m.mean_sq_of) :
        \A c \in 1 .. Len(m.mean_sq_of[r]) : IsZero(m.mean_sq_of[r][c])

(***************************************************************************)
(* Loss                                                                    *)
(***************************************************************************)
\* Loss_init that also takes the class name for the identifier.
Loss_init_lenient(lt, dim) ==
    IF lt \in {"cosine_mse", "Cosine_MSE"}
    THEN [raised |-> FALSE,
          obj |-> [class |-> "Loss", dim |-> dim, loss_func |-> "Cosine_MSE"]]
    ELSE [raised |-> TRUE, obj |-> [class |-> "Loss", dim |-> dim]]

\* Loss.__init__: the attributes assigned, and whether it raised.
Loss_init(lt, dim) ==
    IF lt = "cosine_mse"
    THEN [raised |-> FALSE,
          obj |-> [class |-> "Loss", dim |-> dim, loss_func |-> "Cosine_MSE"]]
    ELSE [raised |-> TRUE, obj |-> [class |-> "Loss", dim |-> dim]]

\* Loss.__call__ returning the loss next to a second key.
Loss_call_two_keys(obj, p, t) ==
    [total |-> Cosine_MSE_forward(p, t), cosine |-> Cosine_MSE_forward(p, t).cosine]

\* Loss.__call__
Loss_call(obj, p, t) ==
    LET loss == CASE obj.loss_func = "Cosine_MSE" -> Cosine_MSE_forward(p, t)
    IN  [total |-> loss]

LossTypes == {"cosine_mse", "Cosine_MSE", "sigloss", ""}

DefaultDim == 384

FeatShapes ==
    {s \in (1 .. 2) \X (2 .. MaxC) \X (1 .. 2) \X (1 .. 2) :
        s[1] * s[2] * s[3] * s[4] <= MaxFeatNumel}

FeatVals == {0, 1, 2}

NoObject == [class |-> "none"]

InitFeat ==
    /\ self = NoObject
    /\ loss_type \in LossTypes
    /\ \E s \in FeatShapes :
          /\ target \in {[shape |-> s, at |-> f] : f \in [Indices(s) -> FeatVals]}
          /\ pred \in {[target EXCEPT !.at[i] = v] : i \in Indices(s), v \in FeatVals}
    /\ ret = NoRet
    /\ calls = 0
    /\ warm_rets = 0
    /\ pc = Idle
    /\ tmp = Idle
    /\ overlapped = FALSE

\* Loss(loss_type): the caller holds the object only if __init__ returned.
LossConstruct ==
    /\ self = NoObject
    /\ ret = NoRet
    /\ LET r == Loss_init(loss_type, DefaultDim)
       IN  IF r.raised
           THEN /\ self' = NoObject
                /\ ret' = [kind |-> "raise", exc |-> "NotImplementedError",
                           assigned |-> DOMAIN r.obj \ {"class"}]
           ELSE /\ self' = r.obj
                /\ ret' = [kind |-> "constructed"]
    /\ UNCHANGED <<pred, target, loss_type, calls, warm_rets, pc, tmp, overlapped>>

\* loss(pred, target) on the constructed dispatcher.
LossCall ==
    /\ self.class = "Loss"
    /\ calls = 0
    /\ ret' = [kind |-> "mapping", map |-> Loss_call(self, pred, target)]
    /\ calls' = 1
    /\ UNCHANGED <<self, pred, target, loss_type, warm_rets, pc, tmp, overlapped>>

NextFeat == LossConstruct \/ LossCall

SpecFeat == InitFeat /\ [][NextFeat]_vars

\* C3: constructing Loss with anything but "cosine_mse" raises
\* NotImplementedError before loss_func is assigned and leaves the caller
\* without a dispatcher; constructing it with "cosine_mse" does not raise
\* and selects Cosine_MSE.
C3_OnlyCosineMseConstructs ==
    /\ (ret.kind # "none" /\ loss_type # "cosine_mse") =>
          /\ ret.kind = "raise"
          /\ ret.exc = "NotImplementedError"
          /\ "loss_func" \notin ret.assigned
          /\ self = NoObject
    /\ (ret.kind # "none" /\ loss_type = "cosine_mse") =>
          /\ ret.kind # "raise"
          /\ self.class = "Loss"
          /\ self.loss_func = "Cosine_MSE"

C3_Witness ==
    /\ ret.kind = "raise"
    /\ loss_type = "Cosine_MSE"
    /\ self = NoObject

\* C4: a call of the dispatcher returns a mapping whose only key is "total"
\* and whose value is what the selected loss returns for the same inputs.
C4_TotalOnly ==
    ret.kind = "mapping" =>
        /\ DOMAIN ret.map = {"total"}
        /\ ret.map.total = Cosine_MSE_forward(pred, target)

C4_Witness ==
    /\ ret.kind = "mapping"
    /\ pred # target
    /\ ~MseTermIsZero(ret.map.total.mse)

NonDegenerate(t) ==
    \A r \in 1 .. Len(Rearrange(t)) : SeqMax(Rearrange(t)[r]) > SeqMin(Rearrange(t)[r])

\* C7: with pred equal to target and every row of non-degenerate channel
\* range, both arrays normalise to the same values, the label has one +1
\* per row of the (B*H*W, C) arrays, and both terms of the loss are 0.
C7_EqualInputsGiveZero ==
    (ret.kind = "mapping" /\ pred = target /\ NonDegenerate(target)) =>
        /\ pred_normalized(pred, target) = target_normalized(target)
        /\ Len(ret.map.total.cosine.mean_of) = target.shape[1] * target.shape[3] * target.shape[4]
        /\ CosineTermIsZero(ret.map.total.cosine)
        /\ MseTermIsZero(ret.map.total.mse)

C7_Witness ==
    /\ ret.kind = "mapping" /\ pred = target /\ NonDegenerate(target)
    /\ target.shape[1] * target.shape[3] * target.shape[4] >= 2
    /\ \E r \in 1 .. Len(Rearrange(target)) : SeqMin(Rearrange(target)[r]) > 0
    /\ CosineTermIsZero(ret.map.total.cosine)
    /\ MseTermIsZero(ret.map.total.mse)

====
